---- MODULE Spec2Model ----
(***************************************************************************)
(* Model of app.py: the Flask trigger process_video, the background job    *)
(* process_video_async and the helpers it calls.  Strings the code         *)
(* inspects (URLs, file names) are sequences of one-character strings.     *)
(***************************************************************************)
EXTENDS Integers, Sequences, FiniteSets, TLC

\* ------------------------------------------------------------------ bounds
NumJobs == 2

Jobs == 1..NumJobs

\* ------------------------------------------------------- string helpers
UpperLetters ==
    <<"A","B","C","D","E","F","G","H","I","J","K","L","M",
      "N","O","P","Q","R","S","T","U","V","W","X","Y","Z">>

LowerLetters ==
    <<"a","b","c","d","e","f","g","h","i","j","k","l","m",
      "n","o","p","q","r","s","t","u","v","w","x","y","z">>

Digits == {"0","1","2","3","4","5","6","7","8","9"}

\* str.lower() on one character
LowerChar(c) ==
    IF \E i \in 1..26 : UpperLetters[i] = c
    THEN LowerLetters[CHOOSE i \in 1..26 : UpperLetters[i] = c]
    ELSE c

\* str.lower()
Lower(s) == [i \in 1..Len(s) |-> LowerChar(s[i])]

\* s[i:].startswith(p), i counted from 1
StartsWithAt(s, i, p) ==
    /\ i + Len(p) - 1 <= Len(s)
    /\ SubSeq(s, i, i + Len(p) - 1) = p

\* str.endswith(p)
EndsWith(s, p) ==
    /\ Len(p) <= Len(s)
    /\ SubSeq(s, Len(s) - Len(p) + 1, Len(s)) = p

\* str.replace(old, new): every non-overlapping occurrence, left to right
RECURSIVE StrReplace(_, _, _)
StrReplace(s, old, new) ==
    IF s = <<>> THEN <<>>
    ELSE IF StartsWithAt(s, 1, old)
         THEN new \o StrReplace(SubSeq(s, Len(old) + 1, Len(s)), old, new)
         ELSE <<Head(s)>> \o StrReplace(Tail(s), old, new)

\* ------------------------------------------- extract_google_drive_file_id
\* the character class [a-zA-Z0-9-_]
IdChar(c) ==
    \/ \E i \in 1..26 : c = UpperLetters[i] \/ c = LowerLetters[i]
    \/ c \in Digits
    \/ c \in {"-", "_"}

\* variant: the query-parameter pattern tried before the path pattern
patterns_swapped ==
    << <<"i","d","=">>,
       <<"/","f","i","l","e","/","d","/">>,
       <<"/","o","p","e","n","?","i","d","=">> >>

\* the three patterns, each a literal prefix followed by ([a-zA-Z0-9-_]+)
patterns ==
    << <<"/","f","i","l","e","/","d","/">>,
       <<"i","d","=">>,
       <<"/","o","p","e","n","?","i","d","=">> >>

\* positions where prefix p followed by at least one id character starts
MatchStarts(url, p) ==
    { i \in 1..Len(url) :
        /\ StartsWithAt(url, i, p)
        /\ i + Len(p) <= Len(url)
        /\ IdChar(url[i + Len(p)]) }

\* the greedy run of id characters starting at position k
RECURSIVE IdRun(_, _)
IdRun(url, k) ==
    IF k <= Len(url) /\ IdChar(url[k])
    THEN <<url[k]>> \o IdRun(url, k + 1)
    ELSE <<>>

Min(S) == CHOOSE x \in S : \A y \in S : x <= y

\* re.search(pattern, url).group(1); <<>> when there is no match
SearchGroup(url, p) ==
    IF MatchStarts(url, p) = {} THEN <<>>
    ELSE IdRun(url, Min(MatchStarts(url, p)) + Len(p))

\* first pattern that matches wins; <<>> stands for None
RECURSIVE ExtractFrom(_, _)
ExtractFrom(url, n) ==
    IF n > Len(patterns) THEN <<>>
    ELSE IF SearchGroup(url, patterns[n]) # <<>>
         THEN SearchGroup(url, patterns[n])
         ELSE ExtractFrom(url, n + 1)

extract_google_drive_file_id(url) == ExtractFrom(url, 1)

\* f"https://drive.google.com/uc?export=download&id={file_id}"
DownloadUrlPrefix ==
    <<"h","t","t","p","s",":","/","/","d","r","i","v","e",".",
      "g","o","o","g","l","e",".","c","o","m","/","u","c","?",
      "e","x","p","o","r","t","=","d","o","w","n","l","o","a","d",
      "&","i","d","=">>

get_download_url(fid) == DownloadUrlPrefix \o fid

\* ------------------------------------------------------ convert_to_audio
AudioSuffixes ==
    { <<".","m","p","3">>, <<".","w","a","v">>,
      <<".","m","4","a">>, <<".","f","l","a","c">> }

\* variant: the comparison without lower()
IsAudioName_cs(input_path) ==
    \E suf \in AudioSuffixes : EndsWith(input_path, suf)

\* input_path.lower().endswith(('.mp3', '.wav', '.m4a', '.flac'))
IsAudioName(input_path) ==
    \E suf \in AudioSuffixes : EndsWith(Lower(input_path), suf)

\* What ffmpeg did: "zero" (exit 0), "nonzero" (CalledProcessError, with
\* its stderr) or "notfound" (FileNotFoundError).  The result is either a
\* returned path or a raised error carrying the stderr text.
convert_to_audio(input_path, output_path, run) ==
    CASE run.exit = "zero"     -> [raised |-> FALSE, path |-> output_path,
                                   stderr |-> "-"]
      [] run.exit = "notfound" -> [raised |-> FALSE, path |-> input_path,
                                   stderr |-> "-"]
      [] run.exit = "nonzero"  ->
            IF IsAudioName(input_path)
            THEN [raised |-> FALSE, path |-> input_path, stderr |-> "-"]
            ELSE [raised |-> TRUE, path |-> <<>>, stderr |-> run.stderr]


\* ------------------------------------------------- transcribe_with_whisper
\* 25 * 1024 * 1024 bytes
WhisperLimit == 25 * 1024 * 1024

\* variant: the limit itself is refused
TooLarge_ge(file_size) == file_size >= WhisperLimit

\* file_size > 25 * 1024 * 1024
TooLarge(file_size) == file_size > WhisperLimit

\* transcribe_with_whisper on a file of the given size, `api` being what
\* openai.Audio.transcribe does if it is called: the size check comes
\* first; every exception is re-raised wrapped
transcribe_with_whisper(file_size, api) ==
    IF TooLarge(file_size)
    THEN [raised |-> TRUE, called |-> FALSE, text |-> "File too large for Whisper API"]
    ELSE IF api = "ok"
         THEN [raised |-> FALSE, called |-> TRUE, text |-> "hello"]
         ELSE [raised |-> TRUE, called |-> TRUE, text |-> api]

\* sizes os.path.getsize may report for a staged file
Sizes == {WhisperLimit - 1, WhisperLimit, WhisperLimit + 1}

\* ------------------------------------------------------------ send_webhook
\* variant: send_webhook without its try/except
SendWebhookRaises_m(delivered) == ~delivered

\* send_webhook wraps the POST and raise_for_status in try/except Exception
\* and only prints: a failed delivery never reaches the caller.
SendWebhookRaises(delivered) == FALSE

\* ------------------------------------------------------ request bodies
required_fields ==
    <<"google_drive_url", "callback_url", "row_id", "openai_api_key">>

Fields == {required_fields[i] : i \in 1..Len(required_fields)}

UrlFileD ==
    <<"/","f","i","l","e","/","d","/","A","B","C","1","2","3","/","v","i","e","w">>

UrlQueryId == <<"/","u","c","?","i","d","=","x","_","9","&","e","=","d">>

UrlNoId == <<"/","d","r","i","v","e","/","f","o","l","d","e","r","s">>

\* request.json of a JSON object carrying the fields in `has`
ObjectBody(has, u, c, r, k) ==
    [kind |-> "object", has |-> has,
     google_drive_url |-> u, callback_url |-> c, row_id |-> r,
     openai_api_key |-> k]

\* a body that is JSON null, and a request without a JSON body
NullBody == [kind |-> "null", has |-> {}, google_drive_url |-> <<>>,
             callback_url |-> "-", row_id |-> "-", openai_api_key |-> "-"]

AbsentBody == [kind |-> "absent", has |-> {}, google_drive_url |-> <<>>,
               callback_url |-> "-", row_id |-> "-", openai_api_key |-> "-"]

PartialFieldSets ==
    {Fields \ {f} : f \in Fields} \cup {{}, {"google_drive_url", "row_id"}}

PartialBodies ==
    {ObjectBody(has, UrlFileD, "https://n8n.example/hook", "row-7", "sk-one") :
        has \in PartialFieldSets}

\* complete bodies: two sources that resolve (with different row ids and
\* credentials) and one that names no file
FullBodies ==
    { ObjectBody(Fields, UrlFileD, "https://n8n.example/hook", "row-7", "sk-one"),
      ObjectBody(Fields, UrlQueryId, "https://n8n.example/hook", "row-8", "sk-two"),
      ObjectBody(Fields, UrlNoId, "https://n8n.example/hook", "row-8", "sk-one") }

Bodies == {NullBody, AbsentBody} \cup PartialBodies \cup FullBodies

\* `field not in data` for the fields in order: the first missing one
MissingIdx(data) == {i \in 1..Len(required_fields) : required_fields[i] \notin data.has}

FirstMissing(data) == required_fields[Min(MissingIdx(data))]

NoResp == [code |-> 0, status |-> "-", error |-> "-", field |-> "-", row_id |-> "-"]

\* jsonify({"error": f"Missing required field: {field}"}), 400
Resp400(field) ==
    [code |-> 400, status |-> "-", error |-> "Missing required field: ",
     field |-> field, row_id |-> "-"]

\* jsonify({"error": str(e)}), 500
Resp500(text) ==
    [code |-> 500, status |-> "-", error |-> text, field |-> "-", row_id |-> "-"]

\* jsonify({"status": "processing", "message": ..., "row_id": row_id})
Resp200(row_id) ==
    [code |-> 200, status |-> "processing", error |-> "-", field |-> "-",
     row_id |-> row_id]

\* ------------------------------------------------------------ file names
\* tempfile.NamedTemporaryFile(delete=False, suffix='.tmp'):
\* gettempdir() + "/" + "tmp" + random characters + ".tmp"
TempDir == <<"/","t","m","p","/">>

RandomParts == {<<"a">>, <<"b">>}

\* variant: the staging file is created with an audio suffix
TmpSuffix_mp3 == <<".","m","p","3">>

TmpSuffix == <<".","t","m","p">>

Mp3Suffix == <<".","m","p","3">>

TempName(rnd) == TempDir \o <<"t","m","p">> \o rnd \o TmpSuffix

TempNames == {TempName(rnd) : rnd \in RandomParts}

\* audio_path = temp_path.replace('.tmp', '.mp3')
AudioPathOf(temp_path) == StrReplace(temp_path, TmpSuffix, Mp3Suffix)

Paths == TempNames \cup {AudioPathOf(t) : t \in TempNames}

NoPath == <<>>


\* --------------------------------------------------------------- state
VARIABLES
    hpc,              \* process_video, per request: "idle", "started", "done"
    req,              \* request.json of the request
    resp,             \* the HTTP response returned, NoResp while none
    started,          \* threads started for the request
    pc,               \* process_video_async, per job: its position
    args,             \* (google_drive_url, callback_url, row_id, openai_api_key)
    file_id,          \* local file_id
    temp_path,        \* local temp_path
    audio_path,       \* local audio_path
    final_audio_path, \* local final_audio_path
    transcript,       \* local transcript
    err,              \* the exception in flight, NoErr while none
    ci,               \* index of the cleanup loop over [temp_path, audio_path]
    fs,               \* temp storage: path -> job whose file is there, 0 none
    openai_api_key,   \* the module attribute openai.api_key
    used_key,         \* history: the key the job's Audio.transcribe call sent
    sends,            \* history: send_webhook calls of the job
    events,           \* history: stages the job attempted, in order
    ffmpeg_exit,      \* history: how the job's ffmpeg run ended, "-" none
    cv,               \* one call of convert_to_audio on its own
    tw                \* one call of transcribe_with_whisper on its own

jobvars == <<pc, args, file_id, temp_path, audio_path, final_audio_path,
             transcript, err, ci>>

vars == <<hpc, req, resp, started, pc, args, file_id, temp_path, audio_path,
          final_audio_path, transcript, err, ci, fs,
          openai_api_key, used_key, sends, events, ffmpeg_exit, cv, tw>>

NoArgs == [google_drive_url |-> <<>>, callback_url |-> "-", row_id |-> "-",
           openai_api_key |-> "-"]

NoErr == [stage |-> "none", text |-> "-", detail |-> "-"]

Error(stage, text, detail) == [stage |-> stage, text |-> text, detail |-> detail]

PipelineInit ==
    /\ hpc = [r \in Jobs |-> "idle"]
    /\ req = [r \in Jobs |-> NullBody]
    /\ resp = [r \in Jobs |-> NoResp]
    /\ started = [r \in Jobs |-> 0]
    /\ pc = [j \in Jobs |-> "off"]
    /\ args = [j \in Jobs |-> NoArgs]
    /\ file_id = [j \in Jobs |-> <<>>]
    /\ temp_path = [j \in Jobs |-> NoPath]
    /\ audio_path = [j \in Jobs |-> NoPath]
    /\ final_audio_path = [j \in Jobs |-> NoPath]
    /\ transcript = [j \in Jobs |-> "-"]
    /\ err = [j \in Jobs |-> NoErr]
    /\ ci = [j \in Jobs |-> 1]
    /\ fs = [p \in Paths |-> 0]
    /\ openai_api_key = "-"
    /\ used_key = [j \in Jobs |-> "-"]
    /\ sends = [j \in Jobs |-> <<>>]
    /\ events = [j \in Jobs |-> <<>>]
    /\ ffmpeg_exit = [j \in Jobs |-> "-"]

\* no separate call of convert_to_audio
NoConvert ==
    [input |-> <<>>, audio |-> FALSE, output |-> <<>>,
     run |-> [exit |-> "zero", stderr |-> "-"], applied |-> FALSE,
     res |-> [raised |-> FALSE, path |-> <<>>, stderr |-> "-"]]

\* no separate call of transcribe_with_whisper
NoTranscribe ==
    [size |-> 0, api |-> "ok", applied |-> FALSE,
     res |-> [raised |-> FALSE, called |-> FALSE, text |-> "-"]]

Init ==
    /\ PipelineInit
    /\ cv = NoConvert
    /\ tw = NoTranscribe

Ev(stage, ok) == [stage |-> stage, ok |-> ok]

Log(j, stage, ok) == events' = [events EXCEPT ![j] = Append(@, Ev(stage, ok))]

\* ------------------------------------------------------- process_video
\* the validation loop falls through: every required field is in data
AllPresent(data) == \A i \in 1..Len(required_fields) : required_fields[i] \in data.has

\* Lines 179-203: read the body, validate, start the thread.  A body that is
\* not an object makes `field not in data` raise, which the handler's
\* except turns into a 500.
ReceiveFrom(r, bodies) ==
    /\ hpc[r] = "idle"
    /\ IF r = 1 THEN TRUE ELSE hpc[r - 1] # "idle"
    /\ \E data \in bodies :
        /\ req' = [req EXCEPT ![r] = data]
        /\ IF data.kind = "absent"
           THEN /\ resp' = [resp EXCEPT ![r] = Resp500("no JSON body")]
                /\ hpc' = [hpc EXCEPT ![r] = "done"]
                /\ UNCHANGED <<started, pc, args>>
           ELSE IF data.kind = "null"
           THEN /\ resp' = [resp EXCEPT ![r] =
                              Resp500("argument of type 'NoneType' is not iterable")]
                /\ hpc' = [hpc EXCEPT ![r] = "done"]
                /\ UNCHANGED <<started, pc, args>>
           ELSE IF ~AllPresent(data)
           THEN /\ resp' = [resp EXCEPT ![r] = Resp400(FirstMissing(data))]
                /\ hpc' = [hpc EXCEPT ![r] = "done"]
                /\ UNCHANGED <<started, pc, args>>
           ELSE /\ args' = [args EXCEPT ![r] =
                              [google_drive_url |-> data.google_drive_url,
                               callback_url |-> data.callback_url,
                               row_id |-> data.row_id,
                               openai_api_key |-> data.openai_api_key]]
                /\ started' = [started EXCEPT ![r] = @ + 1]
                /\ pc' = [pc EXCEPT ![r] = "resolve"]
                /\ hpc' = [hpc EXCEPT ![r] = "started"]
                /\ UNCHANGED resp
    /\ UNCHANGED <<cv, tw, ffmpeg_exit>>
    /\ UNCHANGED <<file_id, temp_path, audio_path, final_audio_path, transcript, err, ci, fs, openai_api_key, used_key, sends,
                   events>>

\* a request with one of the bodies above arrives
Receive(r) == ReceiveFrom(r, Bodies)

\* variant: the handler joins the thread before it answers
CanRespond_join(r) == hpc[r] = "started" /\ pc[r] = "done"

\* thread.start() has returned; nothing between it and the return waits
\* for the thread
CanRespond(r) == hpc[r] = "started"

\* variant: the handler reports an error the thread has recorded so far
Respond_sync(r) ==
    /\ CanRespond(r)
    /\ resp' = [resp EXCEPT ![r] = IF err[r] # NoErr THEN Resp500(err[r].text)
                                   ELSE Resp200(req[r].row_id)]
    /\ hpc' = [hpc EXCEPT ![r] = "done"]
    /\ UNCHANGED <<cv, tw, ffmpeg_exit>>
    /\ UNCHANGED <<req, started, jobvars, fs, openai_api_key, used_key, sends,
                   events>>

\* Lines 205-209: return the acknowledgment
Respond(r) ==
    /\ CanRespond(r)
    /\ resp' = [resp EXCEPT ![r] = Resp200(req[r].row_id)]
    /\ hpc' = [hpc EXCEPT ![r] = "done"]
    /\ UNCHANGED <<cv, tw, ffmpeg_exit>>
    /\ UNCHANGED <<req, started, jobvars, fs, openai_api_key, used_key, sends,
                   events>>


\* -------------------------------------------------- process_video_async
\* variant: a failed download does not stop the pipeline
AfterStage_continue(stage, ok) ==
    CASE stage = "resolve"    -> IF ok THEN "mktemp" ELSE "notify_err"
      [] stage = "mktemp"     -> IF ok THEN "download" ELSE "notify_err"
      [] stage = "download"   -> "convert"
      [] stage = "transcode"  -> IF ok THEN "setkey" ELSE "cleanup"
      [] stage = "transcribe" -> IF ok THEN "notify_ok" ELSE "cleanup"
      [] stage = "notify"     -> "cleanup"

\* variant: the inner try without its finally clause on the error path
AfterStage_nofinally(stage, ok) ==
    CASE stage = "resolve"    -> IF ok THEN "mktemp" ELSE "notify_err"
      [] stage = "mktemp"     -> IF ok THEN "download" ELSE "notify_err"
      [] stage = "download"   -> IF ok THEN "convert" ELSE "notify_err"
      [] stage = "transcode"  -> IF ok THEN "setkey" ELSE "notify_err"
      [] stage = "transcribe" -> IF ok THEN "notify_ok" ELSE "notify_err"
      [] stage = "notify"     -> "cleanup"

\* Where control goes after a stage.  Resolution and the creation of the
\* staging file sit in the outer try only, so an error there goes straight
\* to the except clause; download, conversion, transcription and the
\* success webhook sit in the inner try, so control passes through the
\* finally clause first.
AfterStage(stage, ok) ==
    CASE stage = "resolve"    -> IF ok THEN "mktemp" ELSE "notify_err"
      [] stage = "mktemp"     -> IF ok THEN "download" ELSE "notify_err"
      [] stage = "download"   -> IF ok THEN "convert" ELSE "cleanup"
      [] stage = "transcode"  -> IF ok THEN "setkey" ELSE "cleanup"
      [] stage = "transcribe" -> IF ok THEN "notify_ok" ELSE "cleanup"
      [] stage = "notify"     -> "cleanup"

\* variant: no outer except, the pending exception ends the thread
AfterCleanup_silent(e) == "done"

\* after the finally clause: the pending exception, if any, reaches the
\* outer except; otherwise the function returns
AfterCleanup(e) == IF e = NoErr THEN "done" ELSE "notify_err"

\* variant: the loop forgets audio_path
CleanupPaths_tmponly(j) == <<temp_path[j]>>

\* for file_path in [temp_path, audio_path]
CleanupPaths(j) == <<temp_path[j], audio_path[j]>>

\* variant: the success payload without the transcript text
SuccessPayload_blank(j) ==
    [status |-> "success", row_id |-> args[j].row_id,
     transcript |-> "-", file_id |-> file_id[j]]

\* {"status": "success", "row_id": ..., "transcript": ..., "file_id": ...}
SuccessPayload(j) ==
    [status |-> "success", row_id |-> args[j].row_id,
     transcript |-> transcript[j], file_id |-> file_id[j]]

\* {"status": "error", "row_id": ..., "error": str(e)}
ErrorPayload(j) ==
    [status |-> "error", row_id |-> args[j].row_id, error |-> err[j]]

Fail(j, stage, e) ==
    /\ err' = [err EXCEPT ![j] = e]
    /\ pc' = [pc EXCEPT ![j] = AfterStage(stage, FALSE)]
    /\ Log(j, stage, FALSE)

\* Lines 111-118
Resolve(j) ==
    /\ pc[j] = "resolve"
    /\ LET fid == extract_google_drive_file_id(args[j].google_drive_url) IN
        IF fid = <<>>
        THEN /\ Fail(j, "resolve",
                     Error("resolve",
                           "Could not extract file ID from Google Drive URL", "-"))
             /\ UNCHANGED file_id
        ELSE /\ file_id' = [file_id EXCEPT ![j] = fid]
             /\ pc' = [pc EXCEPT ![j] = AfterStage("resolve", TRUE)]
             /\ Log(j, "resolve", TRUE)
             /\ UNCHANGED err
    /\ UNCHANGED <<cv, tw, ffmpeg_exit>>
    /\ UNCHANGED <<hpc, req, resp, started, args, temp_path, audio_path,
                   final_audio_path, transcript, ci, fs,
                   openai_api_key, used_key, sends>>

\* Lines 121-124: the staging file is created under a name no file has;
\* the creation can fail (no usable directory, no free name)
MkTemp(j) ==
    /\ pc[j] = "mktemp"
    /\ \/ /\ Fail(j, "mktemp", Error("mktemp", "OSError", "-"))
          /\ UNCHANGED <<temp_path, audio_path, fs>>
       \/ \E n \in TempNames :
            /\ fs[n] = 0
            /\ fs' = [fs EXCEPT ![n] = j]
            /\ temp_path' = [temp_path EXCEPT ![j] = n]
            /\ audio_path' = [audio_path EXCEPT ![j] = AudioPathOf(n)]
            /\ pc' = [pc EXCEPT ![j] = AfterStage("mktemp", TRUE)]
            /\ Log(j, "mktemp", TRUE)
            /\ UNCHANGED err
    /\ UNCHANGED <<cv, tw, ffmpeg_exit>>
    /\ UNCHANGED <<hpc, req, resp, started, args, file_id, final_audio_path,
                   transcript, ci, openai_api_key, used_key, sends>>

\* Lines 129-130 and download_file: the GET of get_download_url(file_id)
\* returns; the body is written over temp_path, or the request fails
Download(j) ==
    /\ pc[j] = "download"
    /\ \/ /\ fs' = [fs EXCEPT ![temp_path[j]] = j]
          /\ pc' = [pc EXCEPT ![j] = AfterStage("download", TRUE)]
          /\ Log(j, "download", TRUE)
          /\ UNCHANGED err
       \/ /\ Fail(j, "download", Error("download", "HTTPError", "-"))
          /\ UNCHANGED fs
    /\ UNCHANGED <<cv, tw, ffmpeg_exit>>
    /\ UNCHANGED <<hpc, req, resp, started, args, file_id, temp_path,
                   audio_path, final_audio_path, transcript, ci,
                   openai_api_key, used_key, sends>>

Stderrs == {"Invalid data found when processing input"}

FfmpegRuns ==
    {[exit |-> "zero", stderr |-> "-"], [exit |-> "notfound", stderr |-> "-"]}
    \cup {[exit |-> "nonzero", stderr |-> s] : s \in Stderrs}

\* Line 134 and convert_to_audio: ffmpeg -y writes output_path when it
\* exits zero and may leave a partial output when it exits non-zero
Convert(j) ==
    /\ pc[j] = "convert"
    /\ \E run \in FfmpegRuns :
        LET res == convert_to_audio(temp_path[j], audio_path[j], run) IN
        /\ ffmpeg_exit' = [ffmpeg_exit EXCEPT ![j] = run.exit]
        /\ \/ /\ run.exit # "notfound"
              /\ fs' = [fs EXCEPT ![audio_path[j]] = j]
           \/ /\ run.exit # "zero"
              /\ UNCHANGED fs
        /\ IF res.raised
           THEN /\ Fail(j, "transcode",
                        Error("transcode",
                              "Could not convert video to audio format. FFmpeg error: ",
                              res.stderr))
                /\ UNCHANGED final_audio_path
           ELSE /\ final_audio_path' = [final_audio_path EXCEPT ![j] = res.path]
                /\ pc' = [pc EXCEPT ![j] = AfterStage("transcode", TRUE)]
                /\ Log(j, "transcode", TRUE)
                /\ UNCHANGED err
    /\ UNCHANGED <<cv, tw>>
    /\ UNCHANGED <<hpc, req, resp, started, args, file_id, temp_path,
                   audio_path, transcript, ci, openai_api_key,
                   used_key, sends>>

TranscribeError(cause) == Error("transcribe", "Whisper transcription failed: ", cause)

\* Line 77: openai.api_key = api_key
SetKey(j) ==
    /\ pc[j] = "setkey"
    /\ openai_api_key' = args[j].openai_api_key
    /\ pc' = [pc EXCEPT ![j] = "getsize"]
    /\ UNCHANGED <<cv, tw, ffmpeg_exit>>
    /\ UNCHANGED <<hpc, req, resp, started, args, file_id, temp_path,
                   audio_path, final_audio_path, transcript, err,
                   ci, fs, used_key, sends, events>>

\* Lines 80-82: os.path.getsize and the size check
GetSize(j) ==
    /\ pc[j] = "getsize"
    /\ IF fs[final_audio_path[j]] = 0
       THEN Fail(j, "transcribe", TranscribeError("FileNotFoundError"))
       ELSE \E sz \in Sizes :
            IF TooLarge(sz)
            THEN Fail(j, "transcribe",
                      TranscribeError("File too large for Whisper API"))
            ELSE /\ pc' = [pc EXCEPT ![j] = "whisper"]
                 /\ UNCHANGED <<err, events>>
    /\ UNCHANGED <<cv, tw, ffmpeg_exit>>
    /\ UNCHANGED <<hpc, req, resp, started, args, file_id, temp_path,
                   audio_path, final_audio_path, transcript, ci, fs,
                   openai_api_key, used_key, sends>>

Transcripts == {"hello"}

\* Lines 84-91: open the file and call openai.Audio.transcribe, which is
\* given no key and so sends the module attribute openai.api_key
Whisper(j) ==
    /\ pc[j] = "whisper"
    /\ IF fs[final_audio_path[j]] = 0
       THEN /\ Fail(j, "transcribe", TranscribeError("FileNotFoundError"))
            /\ UNCHANGED <<used_key, transcript>>
       ELSE /\ used_key' = [used_key EXCEPT ![j] = openai_api_key]
            /\ \/ \E t \in Transcripts :
                    /\ transcript' = [transcript EXCEPT ![j] = t]
                    /\ pc' = [pc EXCEPT ![j] = AfterStage("transcribe", TRUE)]
                    /\ Log(j, "transcribe", TRUE)
                    /\ UNCHANGED err
               \/ /\ Fail(j, "transcribe", TranscribeError("APIError"))
                  /\ UNCHANGED transcript
    /\ UNCHANGED <<cv, tw, ffmpeg_exit>>
    /\ UNCHANGED <<hpc, req, resp, started, args, file_id, temp_path,
                   audio_path, final_audio_path, ci, fs,
                   openai_api_key, sends>>

\* variant: an undelivered payload is posted a second time
Send_retry(j, payload, delivered) ==
    sends' = [sends EXCEPT ![j] =
                IF delivered
                THEN Append(@, [payload |-> payload, delivered |-> TRUE])
                ELSE Append(Append(@, [payload |-> payload, delivered |-> FALSE]),
                            [payload |-> payload, delivered |-> FALSE])]

Send(j, payload, delivered) ==
    sends' = [sends EXCEPT ![j] =
                Append(@, [payload |-> payload, delivered |-> delivered])]

\* Lines 142-150: the success webhook
NotifySuccess(j) ==
    /\ pc[j] = "notify_ok"
    /\ \E delivered \in BOOLEAN :
        /\ Send(j, SuccessPayload(j), delivered)
        /\ pc' = [pc EXCEPT ![j] = AfterStage("notify", ~SendWebhookRaises(delivered))]
        /\ Log(j, "notify", TRUE)
        /\ err' = [err EXCEPT ![j] =
                     IF SendWebhookRaises(delivered)
                     THEN Error("notify", "HTTPError", "-") ELSE @]
    /\ UNCHANGED <<cv, tw, ffmpeg_exit>>
    /\ UNCHANGED <<hpc, req, resp, started, args, file_id, temp_path,
                   audio_path, final_audio_path, transcript, ci,
                   fs, openai_api_key, used_key>>

\* variant: the cleanup loop has no except, a failing unlink leaves the
\* loop and reaches the outer handler as the job's error
Cleanup_raise(j) ==
    /\ pc[j] = "cleanup"
    /\ ci[j] <= Len(CleanupPaths(j))
    /\ LET p == CleanupPaths(j)[ci[j]]
           next == IF ci[j] = Len(CleanupPaths(j)) THEN AfterCleanup(err[j])
                   ELSE pc[j] IN
        \/ /\ fs[p] # 0
           /\ fs' = [fs EXCEPT ![p] = 0]
           /\ Log(j, "cleanup", TRUE)
           /\ ci' = [ci EXCEPT ![j] = @ + 1]
           /\ pc' = [pc EXCEPT ![j] = next]
           /\ UNCHANGED err
        \/ /\ fs[p] # 0
           /\ UNCHANGED fs
           /\ Log(j, "cleanup", FALSE)
           /\ ci' = [ci EXCEPT ![j] = Len(CleanupPaths(j)) + 1]
           /\ pc' = [pc EXCEPT ![j] = "notify_err"]
           /\ err' = [err EXCEPT ![j] = Error("cleanup", "PermissionError", "-")]
        \/ /\ fs[p] = 0
           /\ UNCHANGED fs
           /\ Log(j, "cleanup", TRUE)
           /\ ci' = [ci EXCEPT ![j] = @ + 1]
           /\ pc' = [pc EXCEPT ![j] = next]
           /\ UNCHANGED err
    /\ UNCHANGED <<cv, tw, ffmpeg_exit>>
    /\ UNCHANGED <<hpc, req, resp, started, args, file_id, temp_path,
                   audio_path, final_audio_path, transcript,
                   openai_api_key, used_key, sends>>

\* Lines 152-159: one turn of the cleanup loop; a failing unlink is
\* swallowed by the bare except
Cleanup(j) ==
    /\ pc[j] = "cleanup"
    /\ ci[j] <= Len(CleanupPaths(j))
    /\ LET p == CleanupPaths(j)[ci[j]] IN
        IF fs[p] # 0
        THEN \/ /\ fs' = [fs EXCEPT ![p] = 0]
                /\ Log(j, "cleanup", TRUE)
             \/ /\ UNCHANGED fs
                /\ Log(j, "cleanup", FALSE)
        ELSE /\ UNCHANGED fs
             /\ Log(j, "cleanup", TRUE)
    /\ ci' = [ci EXCEPT ![j] = @ + 1]
    /\ pc' = [pc EXCEPT ![j] =
                IF ci[j] = Len(CleanupPaths(j)) THEN AfterCleanup(err[j]) ELSE @]
    /\ UNCHANGED <<cv, tw, ffmpeg_exit>>
    /\ UNCHANGED <<hpc, req, resp, started, args, file_id, temp_path,
                   audio_path, final_audio_path, transcript, err,
                   openai_api_key, used_key, sends>>

\* Lines 161-171: the error webhook
NotifyError(j) ==
    /\ pc[j] = "notify_err"
    /\ \E delivered \in BOOLEAN :
        /\ Send(j, ErrorPayload(j), delivered)
        /\ Log(j, "notify", TRUE)
    /\ pc' = [pc EXCEPT ![j] = "done"]
    /\ UNCHANGED <<cv, tw, ffmpeg_exit>>
    /\ UNCHANGED <<hpc, req, resp, started, args, file_id, temp_path,
                   audio_path, final_audio_path, transcript, err,
                   ci, fs, openai_api_key, used_key>>

\* variant: the jobs share one lock, a job steps only while no other job
\* is under way
JobStep_serial(j) ==
    /\ \A k \in Jobs \ {j} : pc[k] \in {"off", "done"}
    /\ \/ Resolve(j)
       \/ MkTemp(j)
       \/ Download(j)
       \/ Convert(j)
       \/ SetKey(j)
       \/ GetSize(j)
       \/ Whisper(j)
       \/ NotifySuccess(j)
       \/ Cleanup(j)
       \/ NotifyError(j)

JobStep(j) ==
    \/ Resolve(j)
    \/ MkTemp(j)
    \/ Download(j)
    \/ Convert(j)
    \/ SetKey(j)
    \/ GetSize(j)
    \/ Whisper(j)
    \/ NotifySuccess(j)
    \/ Cleanup(j)
    \/ NotifyError(j)

Next ==
    \/ \E r \in Jobs : Receive(r)
    \/ \E r \in Jobs : Respond(r)
    \/ \E j \in Jobs : JobStep(j)

Spec == Init /\ [][Next]_vars


\* One request, its handler and its job thread.  The thread is scheduled
\* fairly and every external call returns or fails: the job's next step is
\* eventually taken.
FirstNext ==
    \/ Receive(1)
    \/ Respond(1)
    \/ JobStep(1)

FairSpec == Init /\ [][FirstNext]_vars /\ WF_vars(JobStep(1))

\* ------------------------------------------- convert_to_audio on its own
\* input names with the answer to "is the extension, case-insensitively,
\* one of mp3, wav, m4a, flac", written out by hand
ConvertInputs ==
    { [name |-> <<"a",".","m","p","3">>,             audio |-> TRUE],
      [name |-> <<"a",".","M","P","3">>,             audio |-> TRUE],
      [name |-> <<"b",".","W","a","v">>,             audio |-> TRUE],
      [name |-> <<"c",".","m","4","a">>,             audio |-> TRUE],
      [name |-> <<"c",".","M","4","A">>,             audio |-> TRUE],
      [name |-> <<"d",".","f","l","a","c">>,         audio |-> TRUE],
      [name |-> <<"d",".","F","L","A","C">>,         audio |-> TRUE],
      [name |-> <<"e",".","m","p","4">>,             audio |-> FALSE],
      [name |-> <<"e",".","M","P","4">>,             audio |-> FALSE],
      [name |-> <<"m","p","3">>,                     audio |-> FALSE],
      [name |-> <<"g",".","m","p","3",".","t","m","p">>, audio |-> FALSE],
      [name |-> <<"h",".","w","a","v","e">>,         audio |-> FALSE],
      [name |-> TempName(<<"a">>),                   audio |-> FALSE] }

ConvertOutputs == {<<"o",".","m","p","3">>, AudioPathOf(TempName(<<"a">>))}

ConvertStderrs == {"Invalid data found when processing input", "Permission denied"}

ConvertRuns ==
    {[exit |-> "zero", stderr |-> "-"], [exit |-> "notfound", stderr |-> "-"]}
    \cup {[exit |-> "nonzero", stderr |-> t] : t \in ConvertStderrs}

InitConvert ==
    /\ PipelineInit
    /\ tw = NoTranscribe
    /\ \E i \in ConvertInputs, o \in ConvertOutputs, run \in ConvertRuns :
        cv = [NoConvert EXCEPT !.input = i.name, !.audio = i.audio,
                               !.output = o, !.run = run]

ApplyConvert ==
    /\ ~cv.applied
    /\ cv' = [cv EXCEPT !.res = convert_to_audio(cv.input, cv.output, cv.run),
                        !.applied = TRUE]
    /\ UNCHANGED <<hpc, req, resp, started, jobvars, fs, openai_api_key,
                   used_key, sends, events, ffmpeg_exit, tw>>

NextConvert == ApplyConvert

SpecConvert == InitConvert /\ [][NextConvert]_vars

\* ---------------------------------------------------- helpers for the properties
EvIdx(j, stage) == {i \in 1..Len(events[j]) : events[j][i].stage = stage}

Succeeded(j, stage) == \E i \in EvIdx(j, stage) : events[j][i].ok

Failed(j, stage) == \E i \in EvIdx(j, stage) : ~events[j][i].ok

PipelineStages == <<"resolve", "mktemp", "download", "transcode", "transcribe">>

StageSet == {PipelineStages[i] : i \in 1..Len(PipelineStages)}

Rank(stage) == CHOOSE i \in 1..Len(PipelineStages) : PipelineStages[i] = stage

\* indices of failed pipeline stages in the job's history
FailedIdx(j) ==
    {i \in 1..Len(events[j]) : events[j][i].stage \in StageSet /\ ~events[j][i].ok}

UnlinkFailed(j) == Failed(j, "cleanup")

FilesOf(j) == {p \in Paths : fs[p] = j}

\* ------------------------------------------------------------------ C1
\* C1: a job never makes more than one send_webhook call, it has made
\* exactly one when it has terminated, and no success notification is
\* followed by an error notification.
C1_OneNotification ==
    \A j \in Jobs :
        /\ Len(sends[j]) <= 1
        /\ pc[j] = "done" => Len(sends[j]) = 1
        /\ \A i, k \in 1..Len(sends[j]) :
              i < k => ~(/\ sends[j][i].payload.status = "success"
                         /\ sends[j][k].payload.status = "error")

\* a job has ended after a success notification whose delivery failed
C1_Witness ==
    \E j \in Jobs :
        /\ pc[j] = "done"
        /\ Len(sends[j]) = 1
        /\ sends[j][1].payload.status = "success"
        /\ ~sends[j][1].delivered

\* ------------------------------------------------------------------ C2
\* C2: every job whose thread was started eventually reaches its terminal
\* state with one notification attempt made (under FairSpec).
C2_EventuallyNotified ==
    \A j \in Jobs :
        (started[j] > 0) ~> (pc[j] = "done" /\ Len(sends[j]) = 1)

\* an accepted request was acknowledged and its job has ended with one
\* notification attempt
C2_Witness ==
    \E j \in Jobs :
        /\ started[j] = 1
        /\ hpc[j] = "done"
        /\ pc[j] = "done"
        /\ Len(sends[j]) = 1

\* ------------------------------------------------------------------ C3
\* C3: once a job has terminated and none of its removal calls failed, no
\* file the job created (raw staging file or audio file) is left in storage.
C3_NoStagedFileSurvives ==
    \A j \in Jobs :
        (pc[j] = "done" /\ ~UnlinkFailed(j)) => FilesOf(j) = {}

\* a job that had both files on disk failed at transcription, has ended,
\* and left nothing behind
C3_Witness ==
    \E j \in Jobs :
        /\ pc[j] = "done"
        /\ Succeeded(j, "transcode")
        /\ final_audio_path[j] = audio_path[j]
        /\ Failed(j, "transcribe")
        /\ ~UnlinkFailed(j)
        /\ FilesOf(j) = {}

\* ------------------------------------------------------------------ C4
\* C4: the transcription call of a job uses the credential of that job's
\* own request, never another job's.
C4_OwnCredential ==
    \A j \in Jobs :
        used_key[j] # "-" => used_key[j] = args[j].openai_api_key

\* ------------------------------------------------------------------ C5
\* C5: within a job the stages run in the order resolve, (staging file),
\* download, transcode, transcribe, notify, each at most once; a stage is
\* attempted only after every earlier one succeeded; after the first
\* failure no further pipeline stage is attempted and the notification
\* carries the failure.
C5_StagesInOrder ==
    \A j \in Jobs :
        /\ \A st \in StageSet \cup {"notify"} : Cardinality(EvIdx(j, st)) <= 1
        /\ \A k \in 1..Len(events[j]) :
              events[j][k].stage \in StageSet =>
                 \A n \in 1..(Rank(events[j][k].stage) - 1) :
                    \E i \in 1..(k - 1) : events[j][i] = Ev(PipelineStages[n], TRUE)
        /\ \A k \in FailedIdx(j) :
              \A i \in (k + 1)..Len(events[j]) :
                 events[j][i].stage \in {"cleanup", "notify"}
        /\ (FailedIdx(j) # {} /\ sends[j] # <<>>) =>
              sends[j][1].payload.status = "error"
        /\ (pc[j] \in {"convert", "setkey", "getsize", "whisper", "notify_ok"})
              => FailedIdx(j) = {}

\* a job whose conversion failed has ended: four stages, cleanup, notify
C5_Witness ==
    \E j \in Jobs :
        /\ pc[j] = "done"
        /\ events[j] = << Ev("resolve", TRUE), Ev("mktemp", TRUE),
                           Ev("download", TRUE), Ev("transcode", FALSE),
                           Ev("cleanup", TRUE), Ev("cleanup", TRUE),
                           Ev("notify", TRUE) >>

\* ------------------------------------------------------------------ C6
AllStagesOk(j) ==
    /\ Succeeded(j, "resolve")
    /\ Succeeded(j, "download")
    /\ Succeeded(j, "transcode")
    /\ Succeeded(j, "transcribe")

\* C6: the payload sent has status "success" exactly when resolve,
\* download, transcode and transcribe all succeeded, and then carries the
\* request's row_id, the transcript the transcriber returned and the file
\* id the resolver returned; otherwise it has status "error" and carries
\* the request's row_id and the error of the first stage that failed.
C6_PayloadMatchesOutcome ==
    \A j \in Jobs : \A i \in 1..Len(sends[j]) :
        LET p == sends[j][i].payload IN
        /\ p.status \in {"success", "error"}
        /\ p.status = "success" <=> AllStagesOk(j)
        /\ p.row_id = req[j].row_id
        /\ p.status = "success" =>
              /\ p.transcript \in Transcripts
              /\ p.transcript = transcript[j]
              /\ p.file_id = extract_google_drive_file_id(req[j].google_drive_url)
              /\ p.file_id # <<>>
        /\ p.status = "error" =>
              /\ FailedIdx(j) # {}
              /\ p.error.stage = events[j][Min(FailedIdx(j))].stage
              /\ p.error = err[j]

\* one job has reported success and another one an error
C6_Witness ==
    \E j, k \in Jobs :
        /\ sends[j] # <<>> /\ sends[j][1].payload.status = "success"
        /\ sends[k] # <<>> /\ sends[k][1].payload.status = "error"
        /\ req[j].row_id # req[k].row_id


\* ------------------------------------------------------------------ C7
\* C7 as stated: every removal of staged files comes after the job's
\* notification attempt.
C7_NotifyBeforeCleanup ==
    \A j \in Jobs :
        \A k \in EvIdx(j, "cleanup") : \E i \in EvIdx(j, "notify") : i < k

InnerStageFailed(j) ==
    Failed(j, "download") \/ Failed(j, "transcode") \/ Failed(j, "transcribe")

\* C7 as amended: after a success the notification attempt comes first and
\* the staged files are removed after it; when download, transcode or
\* transcribe fails the staged files are removed first and the error
\* notification follows; when resolution or the creation of the staging
\* file fails there is a notification and nothing to remove.
C7_CleanupOrder ==
    \A j \in Jobs :
        /\ \A k \in EvIdx(j, "cleanup") : \A i \in EvIdx(j, "notify") :
              IF sends[j][1].payload.status = "success" THEN i < k ELSE k < i
        /\ (pc[j] = "cleanup" /\ err[j] # NoErr) => sends[j] = <<>>
        /\ (pc[j] = "cleanup" /\ err[j] = NoErr) => Len(sends[j]) = 1
        /\ (pc[j] = "done" /\ (AllStagesOk(j) \/ InnerStageFailed(j)))
              => Cardinality(EvIdx(j, "cleanup")) = Len(CleanupPaths(j))
        /\ (pc[j] = "done" /\ (Failed(j, "resolve") \/ Failed(j, "mktemp")))
              => EvIdx(j, "cleanup") = {}

\* a job whose download failed has removed its files and then notified
C7_Witness ==
    \E j \in Jobs :
        /\ pc[j] = "done"
        /\ events[j] = << Ev("resolve", TRUE), Ev("mktemp", TRUE),
                           Ev("download", FALSE), Ev("cleanup", TRUE),
                           Ev("cleanup", TRUE), Ev("notify", TRUE) >>
        /\ sends[j][1].payload.status = "error"

\* ------------------------------------------------------------------ C8
\* C8 as stated: while the acknowledgment has not been returned, the job's
\* pipeline has not completed and no download has completed.
C8_AckBeforeCompletion ==
    \A r \in Jobs :
        hpc[r] = "started" => (pc[r] # "done" /\ EvIdx(r, "download") = {})

\* C8 as amended: after starting the thread the handler returns the
\* acknowledgment without waiting for it: the return is possible in every
\* state of the job, so it can come before the pipeline or the download
\* completes, and the acknowledgment echoes the request's row_id; the
\* thread may nevertheless finish first.
C8_AckNeverWaits ==
    \A r \in Jobs :
        /\ hpc[r] = "started" => ENABLED Respond(r)
        /\ resp[r].code = 200 =>
              (started[r] = 1 /\ resp[r] = Resp200(req[r].row_id))

\* the acknowledgment was returned while the download was still running
C8_Witness ==
    \E r \in Jobs :
        /\ resp[r].code = 200
        /\ pc[r] = "download"

\* ------------------------------------------------------------------ C9
\* C9: a body lacking a required field (a null or absent body included) is
\* answered 400 naming the first missing field and starts no job; a body
\* with all four fields starts exactly one job with those values and is
\* answered 200 echoing row_id.
C9_Validation ==
    \A r \in Jobs :
        hpc[r] # "idle" =>
            IF AllPresent(req[r])
            THEN /\ started[r] = 1
                 /\ args[r].google_drive_url = req[r].google_drive_url
                 /\ args[r].callback_url = req[r].callback_url
                 /\ args[r].row_id = req[r].row_id
                 /\ args[r].openai_api_key = req[r].openai_api_key
                 /\ hpc[r] = "done" => resp[r] = Resp200(req[r].row_id)
            ELSE /\ resp[r] = Resp400(FirstMissing(req[r]))
                 /\ started[r] = 0
                 /\ pc[r] = "off"

\* ----------------------------------------------------------------- C10
\* C10: convert_to_audio returns output_path when ffmpeg exits zero,
\* input_path when ffmpeg is not found, input_path when ffmpeg exits
\* non-zero and the input's extension is, case-insensitively, mp3, wav,
\* m4a or flac, and otherwise fails with ffmpeg's diagnostic output.
C10_DecisionTable ==
    cv.applied =>
        CASE cv.run.exit = "zero" ->
                ~cv.res.raised /\ cv.res.path = cv.output
          [] cv.run.exit = "notfound" ->
                ~cv.res.raised /\ cv.res.path = cv.input
          [] cv.run.exit = "nonzero" /\ cv.audio ->
                ~cv.res.raised /\ cv.res.path = cv.input
          [] cv.run.exit = "nonzero" /\ ~cv.audio ->
                cv.res.raised /\ cv.res.stderr = cv.run.stderr

\* ffmpeg failed on an input named with an upper-case audio extension and
\* the input path came back
C10_Witness ==
    /\ cv.applied
    /\ cv.run.exit = "nonzero"
    /\ cv.input = <<"d",".","F","L","A","C">>
    /\ ~cv.res.raised
    /\ cv.res.path = cv.input


\* ------------------------------------- transcribe_with_whisper on its own
MaxDelta == 12

\* file sizes around the limit, and two small ones
TranscribeSizes ==
    {WhisperLimit + d : d \in (0 - MaxDelta)..MaxDelta} \cup {0, 1}

ApiOutcomes == {"ok", "APIError", "Timeout"}

InitTranscribe ==
    /\ PipelineInit
    /\ cv = NoConvert
    /\ \E sz \in TranscribeSizes, api \in ApiOutcomes :
        tw = [NoTranscribe EXCEPT !.size = sz, !.api = api]

ApplyTranscribe ==
    /\ ~tw.applied
    /\ tw' = [tw EXCEPT !.res = transcribe_with_whisper(tw.size, tw.api),
                        !.applied = TRUE]
    /\ UNCHANGED <<hpc, req, resp, started, jobvars, fs, openai_api_key,
                   used_key, sends, events, ffmpeg_exit, cv>>

NextTranscribe == ApplyTranscribe

SpecTranscribe == InitTranscribe /\ [][NextTranscribe]_vars

\* ----------------------------------------------------------------- C11
\* C11 as stated: a file of 25 MiB or more (exactly 25 MiB included) makes
\* transcribe_with_whisper fail without a call to the remote service; for
\* every smaller file the remote call is made.
C11_LimitInclusive ==
    tw.applied =>
        /\ tw.size >= 25 * 1024 * 1024 => (tw.res.raised /\ ~tw.res.called)
        /\ tw.size < 25 * 1024 * 1024 => tw.res.called

\* C11 as amended: a file of more than 25 MiB makes transcribe_with_whisper
\* fail without a call to the remote service; for every file of at most
\* 25 MiB, a file of exactly 25 MiB included, the remote call is made.
C11_LimitExclusive ==
    tw.applied =>
        /\ tw.size > 25 * 1024 * 1024 => (tw.res.raised /\ ~tw.res.called)
        /\ tw.size <= 25 * 1024 * 1024 => tw.res.called
        /\ (tw.res.called /\ tw.api = "ok") => ~tw.res.raised
        /\ (tw.res.called /\ tw.api # "ok") => tw.res.raised

\* a file of exactly 25 MiB was sent to the remote service
C11_Witness ==
    /\ tw.applied
    /\ tw.size = 26214400
    /\ tw.res.called


\* --------------------------------- the resolver on a wider set of sources
\* references with the identifier the three patterns, tried in the order
\* path segment, id=, /open?id=, yield for each, written out by hand
\* (<<>>: none)
ResolveCases ==
    { [url |-> UrlFileD,   id |-> <<"A","B","C","1","2","3">>],
      [url |-> UrlQueryId, id |-> <<"x","_","9">>],
      [url |-> UrlNoId,    id |-> <<>>],
      [url |-> <<"/","o","p","e","n","?","i","d","=","Q","q","-","7">>,
       id  |-> <<"Q","q","-","7">>],
      [url |-> <<"/","f","i","l","e","/","d","/","A","1","?","i","d","=","B","2">>,
       id  |-> <<"A","1">>],
      [url |-> <<"?","i","d","=","B","2","&","u","=","/","f","i","l","e","/","d","/","A","1">>,
       id  |-> <<"A","1">>],
      [url |-> <<"/","f","i","l","e","/","d","/">>,
       id  |-> <<>>],
      [url |-> <<"/","f","i","l","e","/","d","/","?","i","d","=","Z">>,
       id  |-> <<"Z">>],
      [url |-> <<"?","i","d","=">>,
       id  |-> <<>>],
      [url |-> <<"/","f","i","l","e","/","d","/","a",".","b">>,
       id  |-> <<"a">>],
      [url |-> <<"/","F","I","L","E","/","D","/","A","1">>,
       id  |-> <<>>] }

ResolveBodies ==
    {ObjectBody(Fields, c.url, "https://n8n.example/hook", "row-7", "sk-one") :
        c \in ResolveCases}

\* one request carrying one of these references, its handler and its job
ResolveNext ==
    \/ ReceiveFrom(1, ResolveBodies)
    \/ Respond(1)
    \/ JobStep(1)

SpecResolve == Init /\ [][ResolveNext]_vars

ExpectedId(url) == (CHOOSE c \in ResolveCases : c.url = url).id

\* ----------------------------------------------------------------- C12
\* C12: the resolver returns the capture of the first of the patterns
\* path segment, id=, /open?id= that matches; when none matches the job
\* fails at the resolve stage before a staging file is created or a
\* download attempted.
C12_FirstPatternWins ==
    \A j \in Jobs :
        pc[j] \notin {"off", "resolve"} =>
            IF ExpectedId(req[j].google_drive_url) = <<>>
            THEN /\ events[j][1] = Ev("resolve", FALSE)
                 /\ err[j].stage = "resolve"
                 /\ file_id[j] = <<>>
                 /\ temp_path[j] = NoPath
                 /\ EvIdx(j, "mktemp") = {}
                 /\ EvIdx(j, "download") = {}
                 /\ FilesOf(j) = {}
                 /\ sends[j] # <<>> => sends[j][1].payload.status = "error"
            ELSE /\ events[j][1] = Ev("resolve", TRUE)
                 /\ file_id[j] = ExpectedId(req[j].google_drive_url)

\* a reference holding both a path identifier and, before it, an id=
\* parameter resolved to the path identifier
C12_Witness ==
    \E j \in Jobs :
        /\ req[j].google_drive_url =
             <<"?","i","d","=","B","2","&","u","=","/","f","i","l","e","/","d","/","A","1">>
        /\ file_id[j] = <<"A","1">>
        /\ pc[j] = "done"


\* ----------------------------------------------------------------- C13
\* C13: a delivery that fails is attempted exactly once and never raised
\* to the pipeline: the job's callback saw one POST only, and when the
\* undelivered payload was the success payload the job stays successful
\* (no error recorded, no error notification, straight on to cleanup).
C13_DeliveryFailureSwallowed ==
    \A j \in Jobs :
        \A i \in 1..Len(sends[j]) :
            ~sends[j][i].delivered =>
                /\ Len(sends[j]) = 1
                /\ sends[j][i].payload.status = "success" =>
                      /\ err[j] = NoErr
                      /\ pc[j] \in {"cleanup", "done"}
                      /\ \A k \in 1..Len(events[j]) :
                            events[j][k].stage # "cleanup" => events[j][k].ok
                /\ sends[j][i].payload.status = "error" => pc[j] = "done"

\* a job whose success payload was not delivered has finished its cleanup
C13_Witness ==
    \E j \in Jobs :
        /\ pc[j] = "done"
        /\ Len(sends[j]) = 1
        /\ ~sends[j][1].delivered
        /\ sends[j][1].payload.status = "success"
        /\ EvIdx(j, "cleanup") # {}


\* ----------------------------------------------------------------- C14
\* C14: once a job has reached its terminal state, no process-wide state
\* holds the credential that job was given (unless a job still running
\* was given the same credential).
C14_CredentialGoneAtEnd ==
    \A j \in Jobs :
        pc[j] = "done" /\ openai_api_key = args[j].openai_api_key =>
            \E k \in Jobs \ {j} :
                /\ pc[k] \notin {"off", "done"}
                /\ args[k].openai_api_key = args[j].openai_api_key


\* ----------------------------------------------------------------- C15
\* C15: the HTTP response depends on the request body only: two answered
\* requests with the same body have the same response whatever their
\* pipelines did, and a request whose pipeline recorded an error was still
\* answered with the plain acknowledgment.
C15_ResponseFromBodyOnly ==
    /\ \A r1, r2 \in Jobs :
          hpc[r1] = "done" /\ hpc[r2] = "done" /\ req[r1] = req[r2] =>
              resp[r1] = resp[r2]
    /\ \A r \in Jobs :
          hpc[r] = "done" /\ err[r] # NoErr =>
              resp[r] = Resp200(req[r].row_id)

\* two requests with the same body, one whose pipeline succeeded and one
\* whose pipeline failed, both answered
C15_Witness ==
    \E r1, r2 \in Jobs :
        /\ r1 # r2
        /\ req[r1] = req[r2]
        /\ hpc[r1] = "done" /\ hpc[r2] = "done"
        /\ pc[r1] = "done" /\ pc[r2] = "done"
        /\ sends[r1][1].payload.status = "success"
        /\ sends[r2][1].payload.status = "error"
        /\ resp[r1].code = 200


\* ----------------------------------------------------------------- C16
\* the steps at which a job waits for something outside the process
SuspensionPoints == {"download", "convert", "whisper", "notify_ok", "notify_err"}

\* C16: while some job sits at a suspension point, the next request can be
\* received, every received request can be acknowledged, and every other
\* job that is under way can take its next step.
C16_BlockedJobBlocksNobody ==
    \A k \in Jobs :
        pc[k] \in SuspensionPoints =>
            /\ \A r \in Jobs :
                  /\ hpc[r] = "idle" /\ (IF r = 1 THEN TRUE ELSE hpc[r - 1] # "idle")
                        => ENABLED Receive(r)
                  /\ hpc[r] = "started" => ENABLED Respond(r)
            /\ \A j \in Jobs \ {k} :
                  pc[j] \notin {"off", "done"} => ENABLED JobStep(j)

\* one job waits for the transcription service, the other for its
\* download, and the second request has not been acknowledged yet
C16_Witness ==
    \E j, k \in Jobs :
        /\ j # k
        /\ pc[j] = "whisper"
        /\ pc[k] = "download"
        /\ hpc[k] = "started"


\* ----------------------------------------------------------------- C17
IsStageEvent(e) == e.stage \in StageSet

\* the job's history without its cleanup and notification entries
StageEvents(j) == SelectSeq(events[j], IsStageEvent)

\* C17: a removal that fails changes nothing but the staged file it leaves
\* behind: no job's error ever comes from cleanup, the loop goes on to the
\* other file (one attempt per staged path), and of two jobs with the same
\* request and the same stage results, one with every removal succeeding
\* and one with a removal failing, the notifications agree in number,
\* status and failing stage.
C17_CleanupFailureIgnored ==
    /\ \A j \in Jobs :
          /\ err[j].stage # "cleanup"
          /\ pc[j] \in {"notify_err", "done"} /\ temp_path[j] # NoPath =>
                Cardinality(EvIdx(j, "cleanup")) = Len(CleanupPaths(j))
    /\ \A j1, j2 \in Jobs :
          /\ pc[j1] = "done" /\ pc[j2] = "done"
          /\ req[j1] = req[j2]
          /\ StageEvents(j1) = StageEvents(j2)
          /\ ~UnlinkFailed(j1) /\ UnlinkFailed(j2)
          => /\ Len(sends[j1]) = Len(sends[j2])
             /\ sends[j1][1].payload.status = sends[j2][1].payload.status
             /\ sends[j1][1].payload.row_id = sends[j2][1].payload.row_id
             /\ sends[j1][1].payload.status = "error" =>
                   /\ sends[j1][1].payload.error.stage = sends[j2][1].payload.error.stage
                   /\ sends[j1][1].payload.error.text = sends[j2][1].payload.error.text

\* two finished jobs of the same request whose transcription failed; the
\* first removal of one of them failed, its second was still attempted
C17_Witness ==
    \E j1, j2 \in Jobs :
        /\ pc[j1] = "done" /\ pc[j2] = "done"
        /\ req[j1] = req[j2]
        /\ StageEvents(j1) = StageEvents(j2)
        /\ Failed(j1, "transcribe")
        /\ ~UnlinkFailed(j1)
        /\ \E i, k \in EvIdx(j2, "cleanup") : i < k /\ ~events[j2][i].ok
        /\ sends[j2][1].payload.status = "error"


\* ----------------------------------------------------------------- C18
\* the job has created its staging file and has not finished its cleanup
Active(j) ==
    /\ temp_path[j] # NoPath
    /\ pc[j] \in {"download", "convert", "setkey", "getsize", "whisper",
                  "notify_ok", "cleanup"}

\* C18: two jobs that are both between the creation of their staging file
\* and the end of their cleanup have different temp_path and different
\* audio_path, and the audio file a job's ffmpeg run wrote is still there
\* and still its own while the job is in its transcription stage.
C18_StagedFilesIsolated ==
    /\ \A j, k \in Jobs :
          j # k /\ Active(j) /\ Active(k) =>
              /\ temp_path[j] # temp_path[k]
              /\ audio_path[j] # audio_path[k]
    /\ \A k \in Jobs :
          pc[k] \in {"setkey", "getsize", "whisper"} /\ ffmpeg_exit[k] = "zero" =>
              fs[audio_path[k]] = k


\* ----------------------------------------------------------------- C19
\* no name NamedTemporaryFile can return has a recognized audio suffix
NoTempNameIsAudio == \A n \in TempNames : ~IsAudioName(n)

\* C19: the staging file handed to the transcoder always ends in '.tmp',
\* which is no audio suffix; so a job whose ffmpeg run exited non-zero has
\* failed its transcode stage, never enters the transcriber and ends with
\* an error notification naming the transcode failure; the raw staging
\* file is what the transcriber gets only when ffmpeg was not found.
C19_NoFallbackInPipeline ==
    \A j \in Jobs :
        /\ temp_path[j] # NoPath =>
              /\ temp_path[j] \in TempNames
              /\ EndsWith(temp_path[j], <<".","t","m","p">>)
              /\ NoTempNameIsAudio
        /\ ffmpeg_exit[j] = "nonzero" =>
              /\ Failed(j, "transcode")
              /\ EvIdx(j, "transcribe") = {}
              /\ used_key[j] = "-"
              /\ final_audio_path[j] = NoPath
              /\ pc[j] \in {"cleanup", "notify_err", "done"}
              /\ pc[j] = "done" => Len(sends[j]) = 1
              /\ sends[j] # <<>> =>
                    /\ sends[j][1].payload.status = "error"
                    /\ sends[j][1].payload.error.stage = "transcode"
        /\ final_audio_path[j] # NoPath /\ final_audio_path[j] = temp_path[j] =>
              ffmpeg_exit[j] = "notfound"

\* one job ended with the error notification after a non-zero ffmpeg exit;
\* the other, with no ffmpeg installed, reached the transcription call on
\* its raw staging file
C19_Witness ==
    \E j, k \in Jobs :
        /\ ffmpeg_exit[j] = "nonzero"
        /\ pc[j] = "done"
        /\ sends[j][1].payload.status = "error"
        /\ ffmpeg_exit[k] = "notfound"
        /\ final_audio_path[k] = temp_path[k]
        /\ pc[k] = "whisper"

====
